---- MODULE Spec2Model ----
\* Asynchronous filesystem builtins of slither (src/builtins/fs.rs):
\* readFile / writeFile / removeFile dispatch a blocking syscall to the worker
\* pool, the worker stores an FsResponse under the operation's mio Token and
\* raises the readiness of its Registration, and the main loop hands the ready
\* token to fs::handle, which settles the promise.
EXTENDS Integers, Sequences, FiniteSets, TLC

\* ---------------------------------------------------------------- bounds
\* Number of operations dispatched to the pool in a run.
MaxOps == 3
\* Number of operations dispatched in a run that also makes failing calls.
MaxCalls == 2

\* ---------------------------------------------------------------- values
\* crate::value::Value, as far as the builtins look at it.
String(s) == [type |-> "String", s |-> s]
Number == [type |-> "Number", s |-> "7"]
new_error(msg) == [type |-> "Error", s |-> msg]

\* The strings the calls are made with: two paths and one content.
Strings == {"a.txt", "/", "hi"}

\* Argument vectors the builtins are called with: missing, non-string,
\* valid and surplus arguments.
ArgVectors ==
    { <<>>,
      <<Number>>,
      <<String("a.txt")>>,
      <<String("a.txt"), Number>>,
      <<String("a.txt"), String("hi")>>,
      <<String("/"), String("hi")>> }

\* The calls of a run in which every call passes validation.
PathArgs == { <<String("a.txt")>> }
WriteArgs == { <<String("a.txt"), String("hi")>>, <<String("/"), String("hi")>> }

\* Vec::get(i): Some(args[i]) or None (0-based in the source).
Get(args, i) == IF i + 1 <= Len(args) THEN <<args[i + 1]>> ELSE <<>>
IsSomeString(opt) == opt # <<>> /\ opt[1].type = "String"

\* ---------------------------------------------------------------- HashMap
Insert(m, k, v) == [x \in DOMAIN m \cup {k} |-> IF x = k THEN v ELSE m[x]]
Remove(m, k) == [x \in DOMAIN m \ {k} |-> m[x]]
EmptyMap == [x \in {} |-> 0]

\* ---------------------------------------------------------------- FsResponse
Read(s) == [tag |-> "Read", s |-> s]
Success == [tag |-> "Success", s |-> ""]
Error(s) == [tag |-> "Error", s |-> s]

\* ---------------------------------------------------------------- the file system
NoEntry == [kind |-> "none", data |-> ""]
Dir == [kind |-> "dir", data |-> ""]
File(d) == [kind |-> "file", data |-> d]

ENOENT == "No such file or directory (os error 2)"
EISDIR == "Is a directory (os error 21)"

Ok(v, fs) == [ok |-> TRUE, v |-> v, fs |-> fs]
Err(e, fs) == [ok |-> FALSE, v |-> e, fs |-> fs]

\* std::fs::read_to_string(filename)
fs_read_to_string(fs, filename) ==
    CASE fs[filename].kind = "none" -> Err(ENOENT, fs)
      [] fs[filename].kind = "dir" -> Err(EISDIR, fs)
      [] OTHER -> Ok(fs[filename].data, fs)

\* std::fs::write(filename, contents)
fs_write(fs, filename, contents) ==
    IF fs[filename].kind = "dir"
    THEN Err(EISDIR, fs)
    ELSE Ok("", [fs EXCEPT ![filename] = File(contents)])

\* std::fs::remove_file(filename)
fs_remove_file(fs, filename) ==
    CASE fs[filename].kind = "none" -> Err(ENOENT, fs)
      [] fs[filename].kind = "dir" -> Err(EISDIR, fs)
      [] OTHER -> Ok("", [fs EXCEPT ![filename] = NoEntry])

\* ---------------------------------------------------------------- state
VARIABLES
    mio_map,     \* agent.mio_map: Token -> id of the FS(registration, promise) entry
    RESPONSES,   \* RESPONSES: Token -> [fsr, from] (from: the worker that inserted it)
    pool,        \* agent.pool: the closures submitted, in order; index = operation = promise
    promises,    \* per promise, the resolve/reject invocations made on it
    files,       \* the file system
    readiness,   \* registrations whose readiness was raised and not yet reported
    main,        \* the main thread: idle, or about to return from a builtin
    event,       \* what the last step showed to the interpreter
    sequenced,   \* every dispatch so far was made with all earlier promises settled
    panicked     \* an unwrap() failed on the main thread

vars == <<mio_map, RESPONSES, pool, promises, files, readiness, main, event,
          sequenced, panicked>>

Ops == 1..Len(pool)
Settled(o) == promises[o] # <<>>

\* The Registration of operation o is alive while its entry is in mio_map;
\* dropping the entry drops the Registration.
Alive(o) == pool[o].token \in DOMAIN mio_map /\ mio_map[pool[o].token] = o

NoEvent == [type |-> "none"]

\* One invocation of a promise's resolve or reject slot.
Call(slot, args) == [slot |-> slot, args |-> args]

Init ==
    /\ mio_map = EmptyMap
    /\ RESPONSES = EmptyMap
    /\ pool = <<>>
    /\ promises = <<>>
    /\ files \in {[s \in Strings |-> IF s = "/" THEN Dir ELSE
                                     IF s = "a.txt" THEN f ELSE NoEntry]
                  : f \in {NoEntry}}
    /\ readiness = {}
    /\ main = [pc |-> "idle", promise |-> 0]
    /\ event = NoEvent
    /\ sequenced = TRUE
    /\ panicked = FALSE


\* ---------------------------------------------------------------- builtins
\* A builtin returning Err(value): nothing but the completion changes.
Throw(fn, args, msg) ==
    /\ event' = [type |-> "throw", fn |-> fn, args |-> args, error |-> new_error(msg)]
    /\ UNCHANGED <<mio_map, RESPONSES, pool, promises, files, readiness, main,
                   sequenced, panicked>>

\* Token(agent.mio_map.borrow().len())
NewToken(map) == Cardinality(DOMAIN map)

\* Variant: the token is registered and stored before the promise capability
\* is constructed.
Dispatch_register_first(fn, args, filename, contents, promise_ok) ==
    LET o == Len(pool) + 1
        token == NewToken(mio_map)
        dropped == IF token \in DOMAIN mio_map THEN {mio_map[token]} ELSE {}
    IN  /\ mio_map' = Insert(mio_map, token, o)
        /\ readiness' = readiness \ dropped
        /\ IF ~promise_ok
           THEN /\ event' = [type |-> "throw", fn |-> fn, args |-> args,
                             error |-> new_error("new_promise_capability failed")]
                /\ UNCHANGED <<RESPONSES, pool, promises, files, main, sequenced,
                               panicked>>
           ELSE /\ Len(pool) < MaxOps
                /\ promises' = Append(promises, <<>>)
                /\ pool' = Append(pool, [fn |-> fn, filename |-> filename,
                                         contents |-> contents, token |-> token,
                                         pc |-> "queued", out |-> <<>>])
                /\ main' = [pc |-> "builtin", promise |-> o]
                /\ sequenced' = (sequenced /\ \A q \in Ops : Settled(q))
                /\ event' = [type |-> "dispatch", fn |-> fn, args |-> args,
                             token |-> token, promise |-> o]
                /\ UNCHANGED <<RESPONSES, files, panicked>>

\* The body shared by the three builtins once the arguments matched:
\* new_promise_capability(..)?, Registration::new2(), the token, mio.register,
\* mio_map.insert, pool.execute(closure). The builtin has not returned yet.
\* Inserting over an existing entry drops that entry's Registration, whose
\* readiness is then never reported.
Dispatch(fn, args, filename, contents, promise_ok) ==
    IF ~promise_ok
    THEN Throw(fn, args, "new_promise_capability failed")
    ELSE LET o == Len(pool) + 1
             token == NewToken(mio_map)
             dropped == IF token \in DOMAIN mio_map THEN {mio_map[token]} ELSE {}
         IN  /\ Len(pool) < MaxOps
             /\ promises' = Append(promises, <<>>)
             /\ mio_map' = Insert(mio_map, token, o)
             /\ readiness' = readiness \ dropped
             /\ pool' = Append(pool, [fn |-> fn, filename |-> filename,
                                      contents |-> contents, token |-> token,
                                      pc |-> "queued", out |-> <<>>])
             /\ main' = [pc |-> "builtin", promise |-> o]
             /\ sequenced' = (sequenced /\ \A q \in Ops : Settled(q))
             /\ event' = [type |-> "dispatch", fn |-> fn, args |-> args,
                          token |-> token, promise |-> o]
             /\ UNCHANGED <<RESPONSES, files, panicked>>

\* if let Some(Value::String(filename)) = args.get(0)
filename_arg(args) == IsSomeString(Get(args, 0))
\* Variant: any second argument is taken as the contents.
contents_arg_any(args) == Get(args, 1) # <<>>
\* if let Some(Value::String(contents)) = args.get(1)
contents_arg(args) == IsSomeString(Get(args, 1))

read_file(args, promise_ok) ==
    /\ main.pc = "idle" /\ ~panicked
    /\ IF filename_arg(args)
       THEN Dispatch("readFile", args, args[1].s, "", promise_ok)
       ELSE Throw("readFile", args, "filename must be a string")

write_file(args, promise_ok) ==
    /\ main.pc = "idle" /\ ~panicked
    /\ IF filename_arg(args)
       THEN IF contents_arg(args)
            THEN Dispatch("writeFile", args, args[1].s, args[2].s, promise_ok)
            ELSE Throw("writeFile", args, "contents must be a string")
       ELSE Throw("writeFile", args, "filename must be a string")

remove_file(args, promise_ok) ==
    /\ main.pc = "idle" /\ ~panicked
    /\ IF filename_arg(args)
       THEN Dispatch("removeFile", args, args[1].s, "", promise_ok)
       ELSE Throw("removeFile", args, "filename must be a string")

\* Variant: the builtin waits for its worker and settles before returning.
Return_joined ==
    /\ main.pc = "builtin" /\ ~panicked
    /\ pool[main.promise].pc \in {"stored", "signaled"}
    /\ promises' = [promises EXCEPT ![main.promise] = @ \o <<Call("resolve", <<>>)>>]
    /\ event' = [type |-> "return", promise |-> main.promise]
    /\ main' = [pc |-> "idle", promise |-> 0]
    /\ UNCHANGED <<mio_map, RESPONSES, pool, files, readiness, sequenced, panicked>>

\* Ok(promise): the builtin returns to the interpreter.
Return ==
    /\ main.pc = "builtin" /\ ~panicked
    /\ event' = [type |-> "return", promise |-> main.promise]
    /\ main' = [pc |-> "idle", promise |-> 0]
    /\ UNCHANGED <<mio_map, RESPONSES, pool, promises, files, readiness,
                   sequenced, panicked>>

\* ---------------------------------------------------------------- workers
Outcome(fsr, fs) == [fsr |-> fsr, fs |-> fs]

\* match std::fs::read_to_string(filename) { Ok(s) => Read(s), Err(e) => Error(format!("{}", e)) }
read_file_work(fs, filename, contents) ==
    LET r == fs_read_to_string(fs, filename)
    IN  IF r.ok THEN Outcome(Read(r.v), r.fs) ELSE Outcome(Error(r.v), r.fs)

\* Variant: the arguments of std::fs::write are swapped.
write_file_work_swapped(fs, filename, contents) ==
    LET r == fs_write(fs, contents, filename)
    IN  IF r.ok THEN Outcome(Success, r.fs) ELSE Outcome(Error(r.v), r.fs)

\* match std::fs::write(filename, contents) { Ok(()) => Success, Err(e) => Error(..) }
write_file_work(fs, filename, contents) ==
    LET r == fs_write(fs, filename, contents)
    IN  IF r.ok THEN Outcome(Success, r.fs) ELSE Outcome(Error(r.v), r.fs)

\* match std::fs::remove_file(filename) { Ok(()) => Success, Err(e) => Error(..) }
remove_file_work(fs, filename, contents) ==
    LET r == fs_remove_file(fs, filename)
    IN  IF r.ok THEN Outcome(Success, r.fs) ELSE Outcome(Error(r.v), r.fs)

Work(c, fs) ==
    CASE c.fn = "readFile" -> read_file_work(fs, c.filename, c.contents)
      [] c.fn = "writeFile" -> write_file_work(fs, c.filename, c.contents)
      [] c.fn = "removeFile" -> remove_file_work(fs, c.filename, c.contents)

\* A pool thread picks the closure up and makes the blocking syscall.
WorkerRun(o) ==
    /\ ~panicked /\ pool[o].pc = "queued"
    /\ LET w == Work(pool[o], files)
       IN  /\ files' = w.fs
           /\ pool' = [pool EXCEPT ![o].pc = "ran", ![o].out = <<w.fsr>>]
    /\ event' = NoEvent
    /\ UNCHANGED <<mio_map, RESPONSES, promises, readiness, main, sequenced, panicked>>

\* Variant: the worker forgets the insertion and goes on to signal.
WorkerStore_skip(o) ==
    /\ ~panicked /\ pool[o].pc = "ran"
    /\ pool' = [pool EXCEPT ![o].pc = "stored"]
    /\ event' = NoEvent
    /\ UNCHANGED <<mio_map, RESPONSES, promises, files, readiness, main, sequenced,
                   panicked>>

\* RESPONSES.lock().unwrap().insert(token, response)
WorkerStore(o) ==
    /\ ~panicked /\ pool[o].pc = "ran"
    /\ RESPONSES' = Insert(RESPONSES, pool[o].token,
                           [fsr |-> pool[o].out[1], from |-> o])
    /\ pool' = [pool EXCEPT ![o].pc = "stored"]
    /\ event' = NoEvent
    /\ UNCHANGED <<mio_map, promises, files, readiness, main, sequenced, panicked>>

\* Variant: the worker resolves the promise itself instead of signalling.
WorkerSignal_direct(o) ==
    /\ ~panicked /\ pool[o].pc = "stored"
    /\ promises' = [promises EXCEPT ![o] = @ \o <<Call("resolve", <<>>)>>]
    /\ pool' = [pool EXCEPT ![o].pc = "signaled"]
    /\ event' = NoEvent
    /\ UNCHANGED <<mio_map, RESPONSES, readiness, files, main, sequenced, panicked>>

\* Variant: the worker may signal readiness before it has stored its response.
WorkerSignal_early(o) ==
    /\ ~panicked /\ pool[o].pc \in {"ran", "stored"}
    /\ readiness' = IF Alive(o) THEN readiness \cup {o} ELSE readiness
    /\ pool' = [pool EXCEPT ![o].pc = "signaled"]
    /\ event' = NoEvent
    /\ UNCHANGED <<mio_map, RESPONSES, promises, files, main, sequenced, panicked>>

\* set_readiness.set_readiness(Ready::readable()).unwrap(): queues the event
\* of the worker's own Registration unless that Registration was dropped.
WorkerSignal(o) ==
    /\ ~panicked /\ pool[o].pc = "stored"
    /\ readiness' = IF Alive(o) THEN readiness \cup {o} ELSE readiness
    /\ pool' = [pool EXCEPT ![o].pc = "signaled"]
    /\ event' = NoEvent
    /\ UNCHANGED <<mio_map, RESPONSES, promises, files, main, sequenced, panicked>>

\* ---------------------------------------------------------------- settlement
\* Variant: the Success arm falls through into the Error arm.
SettlementCalls_fallthrough(fsr) ==
    CASE fsr.tag = "Read" -> <<Call("resolve", <<String(fsr.s)>>)>>
      [] fsr.tag = "Success" -> <<Call("resolve", <<>>), Call("reject", <<new_error(fsr.s)>>)>>
      [] fsr.tag = "Error" -> <<Call("reject", <<new_error(fsr.s)>>)>>

\* Variant: the Error arm calls the resolve slot.
SettlementCalls_resolve_error(fsr) ==
    CASE fsr.tag = "Read" -> <<Call("resolve", <<String(fsr.s)>>)>>
      [] fsr.tag = "Success" -> <<Call("resolve", <<>>)>>
      [] fsr.tag = "Error" -> <<Call("resolve", <<new_error(fsr.s)>>)>>

\* match fsr { Read(s) => resolve(String(s)), Success => resolve(), Error(s) => reject(new_error(s)) }
SettlementCalls(fsr) ==
    CASE fsr.tag = "Read" -> <<Call("resolve", <<String(fsr.s)>>)>>
      [] fsr.tag = "Success" -> <<Call("resolve", <<>>)>>
      [] fsr.tag = "Error" -> <<Call("reject", <<new_error(fsr.s)>>)>>

\* Variant: the handler reads the response without removing it.
handle_peek(token, promise) ==
    IF token \in DOMAIN RESPONSES
    THEN LET r == RESPONSES[token]
         IN  /\ promises' = [promises EXCEPT ![promise] = @ \o SettlementCalls(r.fsr)]
             /\ event' = [type |-> "settle", token |-> token, promise |-> promise,
                          fsr |-> r.fsr, from |-> r.from,
                          calls |-> SettlementCalls(r.fsr)]
             /\ UNCHANGED <<RESPONSES, panicked>>
    ELSE /\ panicked' = TRUE
         /\ event' = [type |-> "panic", token |-> token, promise |-> promise]
         /\ UNCHANGED <<RESPONSES, promises>>

\* Variant: a missing response is turned into a rejection instead of a panic.
handle_lenient(token, promise) ==
    IF token \in DOMAIN RESPONSES
    THEN LET r == RESPONSES[token]
         IN  /\ RESPONSES' = Remove(RESPONSES, token)
             /\ promises' = [promises EXCEPT ![promise] = @ \o SettlementCalls(r.fsr)]
             /\ event' = [type |-> "settle", token |-> token, promise |-> promise,
                          fsr |-> r.fsr, from |-> r.from,
                          calls |-> SettlementCalls(r.fsr)]
             /\ UNCHANGED panicked
    ELSE /\ promises' = [promises EXCEPT
                            ![promise] = @ \o SettlementCalls(Error("no response"))]
         /\ event' = [type |-> "settle", token |-> token, promise |-> promise,
                      fsr |-> Error("no response"), from |-> promise,
                      calls |-> SettlementCalls(Error("no response"))]
         /\ UNCHANGED <<RESPONSES, panicked>>

\* pub fn handle(agent, token, promise)
handle(token, promise) ==
    IF token \in DOMAIN RESPONSES
    THEN LET r == RESPONSES[token]
         IN  /\ RESPONSES' = Remove(RESPONSES, token)
             /\ promises' = [promises EXCEPT ![promise] = @ \o SettlementCalls(r.fsr)]
             /\ event' = [type |-> "settle", token |-> token, promise |-> promise,
                          fsr |-> r.fsr, from |-> r.from,
                          calls |-> SettlementCalls(r.fsr)]
             /\ UNCHANGED panicked
    ELSE /\ panicked' = TRUE
         /\ event' = [type |-> "panic", token |-> token, promise |-> promise]
         /\ UNCHANGED <<RESPONSES, promises>>

\* The main loop: the reactor reports the token of a Registration whose
\* readiness was raised; the loop takes the token's entry out of mio_map
\* (the operation is retired) and calls fs::handle with the entry's promise.
Wake(o) ==
    /\ main.pc = "idle" /\ ~panicked
    /\ o \in readiness
    /\ LET token == pool[o].token
       IN  /\ mio_map' = Remove(mio_map, token)
           /\ handle(token, mio_map[token])
    /\ readiness' = readiness \ {o}
    /\ UNCHANGED <<pool, files, main, sequenced>>

\* ---------------------------------------------------------------- specification
\* Runs whose calls all pass validation and get their promise.
Next ==
    \/ \E args \in PathArgs : read_file(args, TRUE)
    \/ \E args \in WriteArgs : write_file(args, TRUE)
    \/ \E args \in PathArgs : remove_file(args, TRUE)
    \/ Return
    \/ \E o \in Ops : WorkerRun(o)
    \/ \E o \in Ops : WorkerStore(o)
    \/ \E o \in Ops : WorkerSignal(o)
    \/ \E o \in Ops : Wake(o)

Spec == Init /\ [][Next]_vars

\* Runs that also make calls with bad arguments and calls whose promise
\* construction fails; at most MaxCalls calls are dispatched.
Room(ok) == ok => Len(pool) < MaxCalls

CallNext ==
    \/ \E args \in ArgVectors, ok \in BOOLEAN : Room(ok) /\ read_file(args, ok)
    \/ \E args \in ArgVectors, ok \in BOOLEAN : Room(ok) /\ write_file(args, ok)
    \/ \E args \in ArgVectors, ok \in BOOLEAN : Room(ok) /\ remove_file(args, ok)
    \/ Return
    \/ \E o \in Ops : WorkerRun(o)
    \/ \E o \in Ops : WorkerStore(o)
    \/ \E o \in Ops : WorkerSignal(o)
    \/ \E o \in Ops : Wake(o)

CallSpec == Init /\ [][CallNext]_vars

\* The main loop handing fs::handle a registered token whose response is not
\* in the store (a report the reactor should never make).
SpuriousWake(token) ==
    /\ main.pc = "idle" /\ ~panicked
    /\ token \in DOMAIN mio_map /\ token \notin DOMAIN RESPONSES
    /\ mio_map' = Remove(mio_map, token)
    /\ handle(token, mio_map[token])
    /\ readiness' = readiness \ {mio_map[token]}
    /\ UNCHANGED <<pool, files, main, sequenced>>

\* Runs in which the handler can also be invoked without a stored response;
\* at most MaxCalls calls are dispatched.
HandleNext ==
    \/ \E args \in PathArgs : Room(TRUE) /\ read_file(args, TRUE)
    \/ \E args \in WriteArgs : Room(TRUE) /\ write_file(args, TRUE)
    \/ \E args \in PathArgs : Room(TRUE) /\ remove_file(args, TRUE)
    \/ Return
    \/ \E o \in Ops : WorkerRun(o)
    \/ \E o \in Ops : WorkerStore(o)
    \/ \E o \in Ops : WorkerSignal(o)
    \/ \E o \in Ops : Wake(o)
    \/ \E token \in 0..MaxOps : SpuriousWake(token)

HandleSpec == Init /\ [][HandleNext]_vars

TypeOK ==
    /\ DOMAIN mio_map \subseteq 0..MaxOps
    /\ DOMAIN RESPONSES \subseteq 0..MaxOps
    /\ Len(promises) = Len(pool)
    /\ readiness \subseteq Ops
    /\ \A o \in readiness : Alive(o) /\ pool[o].pc = "signaled"
    /\ main.pc \in {"idle", "builtin"}
    /\ ~panicked

\* ---------------------------------------------------------------- properties
\* Every worker has finished and the reactor has nothing left to report.
Quiescent ==
    /\ main.pc = "idle"
    /\ readiness = {}
    /\ \A o \in Ops : pool[o].pc = "signaled"

Resolved(o, args) == promises[o] = <<Call("resolve", args)>>
Rejected(o) == Len(promises[o]) = 1 /\ promises[o][1].slot = "reject"

\* C1: no promise has resolve/reject invoked on it more than once in total.
C1_AtMostOneSettlement ==
    \A o \in Ops : Len(promises[o]) <= 1

\* C1 witness: two operations shared a token, both workers finished, and one
\* of the two promises was settled.
C1_Witness ==
    \E a, b \in Ops :
        /\ a # b /\ pool[a].token = pool[b].token
        /\ pool[a].pc = "signaled" /\ pool[b].pc = "signaled"
        /\ Len(promises[b]) = 1

\* C2: once every worker has finished and every reported readiness has been
\* handled, every dispatched promise is settled (none stays pending forever).
C2_AllSettle ==
    Quiescent => \A o \in Ops : Settled(o)

\* C3: the token a builtin allocates is not the token of an entry that is in
\* the Token Registry at that moment.
C3_FreshToken ==
    [][(main.pc = "idle" /\ main'.pc = "builtin")
         => pool'[main'.promise].token \notin DOMAIN mio_map]_vars

\* C4: the response the settlement handler consumes for a promise was stored
\* by the worker of the operation that created that promise.
C4_OwnResponse ==
    event.type = "settle" => event.from = event.promise

\* The arguments are of the right count and type: a string path, and for
\* writeFile a string contents.
ArgsValid(fn, args) ==
    /\ Len(args) >= 1 /\ args[1].type = "String"
    /\ fn = "writeFile" => (Len(args) >= 2 /\ args[2].type = "String")

C6_SettlementByVariant ==
    event.type = "settle" =>
        LET f == event.fsr
            c == event.calls
        IN  /\ Len(c) = 1
            /\ f.tag = "Read" => c[1] = [slot |-> "resolve", args |-> <<String(f.s)>>]
            /\ f.tag = "Success" => c[1] = [slot |-> "resolve", args |-> <<>>]
            /\ f.tag = "Error" =>
                   c[1] = [slot |-> "reject", args |-> <<[type |-> "Error", s |-> f.s]>>]
            /\ Len(promises[event.promise]) >= 1
            /\ promises[event.promise][Len(promises[event.promise])] = c[1]

\* C6 witness: the handler has just run and, over the run, consumed a Read, a
\* Success and an Error response.
C6_Witness ==
    /\ event.type = "settle"
    /\ \E a, b, c \in Ops :
        /\ Settled(a) /\ promises[a][1].slot = "resolve" /\ promises[a][1].args # <<>>
        /\ Settled(b) /\ promises[b][1].slot = "resolve" /\ promises[b][1].args = <<>>
        /\ Settled(c) /\ promises[c][1].slot = "reject"

IsOp(o, fn, p) == o \in Ops /\ pool[o].fn = fn /\ pool[o].filename = p

\* C7: in a sequenced run, for a path p that is not a directory: writeFile(p, c)
\* resolves with no value and a following readFile(p) resolves to c;
\* removeFile(p) after the write resolves with no value and a readFile(p)
\* following a removeFile(p) rejects; and no promise is left pending.
C7_SequencedScenario ==
    sequenced =>
        /\ Quiescent => \A o \in Ops : Settled(o)
        /\ \A o \in Ops, p \in Strings :
            files[p].kind # "dir" =>
                /\ (IsOp(o, "writeFile", p) /\ Settled(o)) => Resolved(o, <<>>)
                /\ (IsOp(o, "writeFile", p) /\ IsOp(o + 1, "readFile", p) /\ Settled(o + 1))
                       => Resolved(o + 1, <<String(pool[o].contents)>>)
                /\ (IsOp(o, "writeFile", p) /\ IsOp(o + 1, "removeFile", p) /\ Settled(o + 1))
                       => Resolved(o + 1, <<>>)
                /\ (IsOp(o, "removeFile", p) /\ IsOp(o + 1, "readFile", p) /\ Settled(o + 1))
                       => Rejected(o + 1)

\* C7 witness: writeFile("a.txt", "hi"), removeFile("a.txt"), readFile("a.txt"),
\* each dispatched after the previous one settled, have all settled.
C7_Witness ==
    /\ sequenced /\ Len(pool) = 3
    /\ IsOp(1, "writeFile", "a.txt") /\ pool[1].contents = "hi"
    /\ IsOp(2, "removeFile", "a.txt")
    /\ IsOp(3, "readFile", "a.txt")
    /\ \A o \in Ops : Settled(o)

\* C8: the promise of an operation whose syscall failed is never resolved, is
\* rejected with an error carrying the platform error's text, and does not
\* stay pending once everything has run.
C8_OsFailureRejects ==
    \A o \in Ops :
        (pool[o].out # <<>> /\ pool[o].out[1].tag = "Error") =>
            /\ \A i \in 1..Len(promises[o]) : promises[o][i].slot # "resolve"
            /\ Settled(o) =>
                   promises[o] = <<Call("reject", <<new_error(pool[o].out[1].s)>>)>>
            /\ Quiescent => Settled(o)

\* C9: at the moment a builtin returns its promise, neither resolve nor reject
\* has been invoked on it, whatever the worker has done meanwhile.
C9_ReturnsPending ==
    event.type = "return" => promises[event.promise] = <<>>

\* C9 witness: the builtin returns after its worker stored the response and
\* raised the readiness.
C9_Witness ==
    /\ event.type = "return"
    /\ pool[event.promise].pc = "signaled"
    /\ pool[event.promise].token \in DOMAIN RESPONSES

\* C10: a step of a worker leaves the Token Registry, every promise and the
\* main thread alone; it changes at most the Response Store entry of its own
\* token or the readiness of its own registration; and every resolve/reject
\* invocation is made by the settlement handler on the idle main thread.
C10_WorkersDoNotSettle ==
    [][/\ \A o \in Ops :
            pool'[o].pc # pool[o].pc =>
                /\ UNCHANGED <<mio_map, promises, main>>
                /\ \A t \in DOMAIN RESPONSES : t # pool[o].token =>
                       (t \in DOMAIN RESPONSES' /\ RESPONSES'[t] = RESPONSES[t])
                /\ DOMAIN RESPONSES' \subseteq DOMAIN RESPONSES \cup {pool[o].token}
                /\ readiness \subseteq readiness' /\ readiness' \subseteq readiness \cup {o}
       /\ (\E o \in Ops : promises'[o] # promises[o]) =>
            (main.pc = "idle" /\ event'.type = "settle" /\ pool' = pool)]_vars

\* C10 witness: one worker has stored its response and raised its readiness,
\* its promise untouched, while another promise was settled by the handler.
C10_Witness ==
    \E a, b \in Ops :
        /\ a \in readiness /\ pool[a].pc = "signaled" /\ promises[a] = <<>>
        /\ pool[a].token \in DOMAIN RESPONSES
        /\ Settled(b)

\* C11: a dispatch never receives a token less than or equal to a token
\* allocated by an earlier dispatch.
C11_MonotonicTokens ==
    [][(main.pc = "idle" /\ main'.pc = "builtin")
         => \A o \in Ops : pool[o].token < pool'[main'.promise].token]_vars

\* C12: the handler is never invoked for a token without a stored response:
\* the unwrap never fails, and every readiness event waiting to be reported
\* belongs to a registered, still unsettled operation whose worker has
\* finished and whose token holds an unconsumed response.
C12_WakeHasResponse ==
    /\ ~panicked
    /\ event.type # "panic"
    /\ \A o \in readiness :
        /\ pool[o].token \in DOMAIN RESPONSES
        /\ pool[RESPONSES[pool[o].token].from].pc \in {"stored", "signaled"}
        /\ ~Settled(o)
        /\ \A q \in readiness : pool[q].token = pool[o].token => q = o

\* C12 witness: the handler has just consumed a response for a token that two
\* operations shared.
C12_Witness ==
    /\ event.type = "settle"
    /\ \E a, b \in Ops : a # b /\ pool[a].token = event.token /\ pool[b].token = event.token

\* C13: a worker never inserts its response under a token that already holds
\* an unconsumed response.
C13_NoOverwrite ==
    [][\A o \in Ops :
         (pool[o].pc = "ran" /\ pool'[o].pc = "stored")
             => pool[o].token \notin DOMAIN RESPONSES]_vars

\* C14: a worker steps from its syscall to one insertion of its own response
\* under its own token and then to one readiness signal, in that order, on the
\* success and on the failure branch alike.
C14_StoreThenSignal ==
    [][\A o \in Ops :
         pool'[o].pc # pool[o].pc =>
             \/ /\ pool[o].pc = "queued" /\ pool'[o].pc = "ran"
                /\ pool'[o].out # <<>>
                /\ UNCHANGED <<RESPONSES, readiness>>
             \/ /\ pool[o].pc = "ran" /\ pool'[o].pc = "stored"
                /\ pool[o].token \in DOMAIN RESPONSES'
                /\ RESPONSES'[pool[o].token] = [fsr |-> pool[o].out[1], from |-> o]
                /\ UNCHANGED readiness
             \/ /\ pool[o].pc = "stored" /\ pool'[o].pc = "signaled"
                /\ UNCHANGED RESPONSES
                /\ Alive(o) => o \in readiness']_vars

\* C14 witness: a worker whose syscall failed and a worker whose syscall
\* succeeded have both raised their readiness, each response in the store.
C14_Witness ==
    \E a, b \in readiness :
        /\ pool[a].out[1].tag = "Error" /\ pool[b].out[1].tag # "Error"
        /\ RESPONSES[pool[a].token].from = a
        /\ RESPONSES[pool[b].token].from = b

\* C15: when the promise capability cannot be constructed for a call with
\* valid arguments, the builtin returns the error and the reactor
\* registrations, the Token Registry, the pool and the store are unchanged.
C15_PromiseBeforeRegistration ==
    [][(event'.type = "throw" /\ ArgsValid(event'.fn, event'.args))
         => UNCHANGED <<mio_map, readiness, pool, RESPONSES, promises, files>>]_vars

\* C15 witness: promise construction failed for a valid writeFile call while
\* another operation was registered.
C15_Witness ==
    /\ event.type = "throw" /\ event.fn = "writeFile"
    /\ event.args = <<String("a.txt"), String("hi")>>
    /\ event.error.s = "new_promise_capability failed"
    /\ DOMAIN mio_map # {}

\* C16: whenever the Response Store holds a response under a token, the Token
\* Registry holds a pending operation under that token.
C16_ResponseHasPending ==
    DOMAIN RESPONSES \subseteq DOMAIN mio_map

\* The stage of a dispatched operation: 3 Dispatched, 4 Executing,
\* 5 Completed, 6 Settled, 7 Retired (its registry entry is gone).
Stage(o) ==
    IF ~Alive(o) THEN 7
    ELSE IF Settled(o) THEN 6
    ELSE IF pool[o].pc = "signaled" THEN 5
    ELSE IF pool[o].pc \in {"ran", "stored"} THEN 4
    ELSE 3

\* C17: an operation only moves forward through its stages and skips none (the
\* handler settles and retires in one turn of the main loop); it is settled
\* only once completed and retired only once settled.
C17_StagesForward ==
    [][\A o \in Ops :
         /\ Stage(o)' >= Stage(o)
         /\ Stage(o)' > Stage(o) =>
                (Stage(o)' = Stage(o) + 1 \/ (Stage(o) = 5 /\ Stage(o)' = 7))
         /\ Settled(o)' => pool'[o].pc = "signaled"
         /\ Stage(o)' = 7 => Settled(o)']_vars

\* C18: the step of the settlement handler for a token removes that token's
\* entry from the Response Store and leaves every other entry as it was.
C18_TakesResponse ==
    [][(event'.type = "settle" /\ promises' # promises)
         => /\ event'.token \in DOMAIN RESPONSES
            /\ DOMAIN RESPONSES' = DOMAIN RESPONSES \ {event'.token}
            /\ \A k \in DOMAIN RESPONSES' : RESPONSES'[k] = RESPONSES[k]]_vars

\* C18 witness: the handler has just run for a token while the response of
\* another token stays in the store.
C18_Witness ==
    /\ event.type = "settle"
    /\ event.token \notin DOMAIN RESPONSES
    /\ DOMAIN RESPONSES # {}

\* C19: when the handler is invoked for a token that has no response in the
\* store, it panics: no resolve or reject is invoked, and nothing runs after
\* the panic.
C19_MissingResponseIsFatal ==
    [][/\ ~panicked
       /\ (event'.type \in {"settle", "panic"} /\ event'.token \notin DOMAIN RESPONSES)
            => (panicked' /\ event'.type = "panic" /\ UNCHANGED <<promises, RESPONSES>>)]_vars

\* C19 witness: the handler was invoked for a registered token without a
\* response and panicked, the promise still pending.
C19_Witness ==
    /\ panicked /\ event.type = "panic"
    /\ event.token \notin DOMAIN RESPONSES
    /\ promises[event.promise] = <<>>

\* C20: at quiescence the Response Store and the Token Registry are empty and
\* as many promises are settled as operations were dispatched.
C20_NoLeakAtQuiescence ==
    Quiescent =>
        /\ DOMAIN RESPONSES = {}
        /\ DOMAIN mio_map = {}
        /\ Cardinality({o \in Ops : Settled(o)}) = Len(pool)
====
